---- MODULE Spec2Model ----
(***************************************************************************)
(* The audio pipeline of AppAudio (src/unnamed/part_000): three FreeRTOS   *)
(* tasks that run forever.                                                 *)
(*   feedTask   reads a raw frame from the microphone and feeds the AFE.   *)
(*   detectTask fetches an enhanced frame from the AFE, appends it to the  *)
(*              circular m_audio_buffer and, under m_features_mutex,       *)
(*              copies the whole ring, oldest first, into m_features.      *)
(*   actionTask once a second runs the classifier on m_features under the  *)
(*              mutex, reduces the scores to one label and calls           *)
(*              m_crying_fn on the edges of m_crying.                      *)
(* Every task is modelled as a program counter over the statements of its  *)
(* loop.  A sample is represented by its position in the append order      *)
(* (the first appended sample is 1), so a slot of the ring or the window   *)
(* tells which sample it holds.  The two buffers come from new float[],    *)
(* which does not initialise them: the unknown value a slot starts with is *)
(* represented by a symbol of its own, UninitBuffer(k) or                  *)
(* UninitFeatures(k), a negative number no sample is equal to.  The tasks  *)
(* only copy samples and never compute on or branch on one, so what holds  *)
(* of the symbols holds of every value the memory can contain.  The        *)
(* classifier is outside the repository: what it returns is any status and *)
(* any score vector, whatever the window holds.                            *)
(***************************************************************************)
EXTENDS Integers, Sequences, FiniteSets, TLC

\* AUDIO_BUFFER_SIZE is 16000 in the source; the model scales it down.
AUDIO_BUFFER_SIZE == 3
\* The AFE reports its fetch chunk size at run time: 1..MaxChunk.
MaxChunk == 4
\* Samples appended in one behaviour.
MaxSamples == 7
\* EI_CLASSIFIER_LABEL_COUNT comes from the generated model header.
EI_CLASSIFIER_LABEL_COUNT == 3
\* Scores are 0 .. MaxScore where the label reduction is checked on its own.
MaxScore == 2
\* Calls of m_crying_fn in one behaviour.
MaxEvents == 3
\* Slices the classifier pulls in one inference.
MaxPulls == 1

CRYING_IDX == 0
NOISE_IDX == 1

Slots == 0 .. AUDIO_BUFFER_SIZE - 1
Labels == 0 .. EI_CLASSIFIER_LABEL_COUNT - 1
\* the unknown initial value of m_audio_buffer[k] and of m_features[k]
UninitBuffer(k) == -(k + 1)
UninitFeatures(k) == -(AUDIO_BUFFER_SIZE + k + 1)
\* the values a label's score takes: enough for ties and for strict order
Scores == {0, 1}
ScoreVectors == [Labels -> Scores]
WideScoreVectors == [Labels -> 0 .. MaxScore]
\* one vector with CRYING_IDX on top and one with NOISE_IDX on top
DecidedScoreVectors ==
    {[l \in Labels |-> IF l = top THEN 1 ELSE 0] : top \in {CRYING_IDX, NOISE_IDX}}

VARIABLES
    afe_chunksize,        \* detectTask: get_fetch_chunksize()
    m_audio_buffer,       \* the ring
    m_audio_buffer_ptr,   \* its write cursor
    m_features,           \* the window
    m_features_mutex,     \* "free", "detect" or "action"
    d_pc, d_res, d_i,     \* detectTask: position, last fetch result, loop index
    appended,             \* history: samples appended so far
    window_N,             \* history: value of appended at the last completed rebuild, -1 before it
    f_pc, f_read,         \* feedTask: position, status of the last capture read
    a_pc,                 \* actionTask: position
    ei_status,            \* what run_classifier returned last: "none", "OK", "FAIL"
    result,               \* result.classification[i].value
    result_idx,
    m_crying,
    events,               \* history: arguments of the calls of m_crying_fn, in order
    a_snapshot,           \* history: m_features when the running inference started
    a_pulls,              \* history: slices pulled by the running inference
    a_torn,               \* history: a pulled slice differed from a_snapshot
    pre_crying,           \* history: m_crying when the cycle began
    cycle_events,         \* history: arguments of the calls of m_crying_fn in this cycle
    prev_idx, prev_status, \* history: result_idx and ei_status of the previous cycle
    crying_changes        \* history: how many times m_crying has changed

detectVars == <<afe_chunksize, m_audio_buffer, m_audio_buffer_ptr, d_pc, d_res, d_i,
                appended, window_N>>
feedVars == <<f_pc, f_read>>
actionVars == <<a_pc, ei_status, result, result_idx, m_crying, events, a_snapshot,
                a_pulls, a_torn, pre_crying, cycle_events, prev_idx, prev_status,
                crying_changes>>
vars == <<detectVars, feedVars, actionVars, m_features, m_features_mutex>>

----------------------------------------------------------------------------
(* init() and start() *)

InitCryingTrue == TRUE

\* init(): m_crying = false
InitCrying == FALSE

Init ==
    /\ afe_chunksize \in 1 .. MaxChunk
    /\ m_audio_buffer = [k \in Slots |-> UninitBuffer(k)]
    /\ m_features = [k \in Slots |-> UninitFeatures(k)]
    /\ m_audio_buffer_ptr = 0
    /\ m_features_mutex = "free"
    /\ d_pc = "fetch" /\ d_res = "none" /\ d_i = 0
    /\ appended = 0 /\ window_N = -1
    /\ f_pc = "read" /\ f_read = "none"
    /\ a_pc = "lock"
    /\ ei_status = "none"
    /\ result = [l \in Labels |-> 0]
    /\ result_idx = NOISE_IDX
    /\ m_crying = InitCrying
    /\ events = <<>>
    /\ a_snapshot = m_features
    /\ a_pulls = 0 /\ a_torn = FALSE
    /\ pre_crying = InitCrying
    /\ cycle_events = <<>>
    /\ prev_idx = -1 /\ prev_status = "none"
    /\ crying_changes = 0

----------------------------------------------------------------------------
(* feedTask *)

\* esp_get_feed_data(): the read succeeds or fails; the status is not looked at
FeedRead ==
    /\ f_pc = "read"
    /\ \E st \in {"ok", "fail"} : f_read' = st
    /\ f_pc' = "feed"
    /\ UNCHANGED <<detectVars, actionVars, m_features, m_features_mutex>>

\* feed(): the buffer goes to the AFE whatever the read returned
FeedFeed ==
    /\ f_pc = "feed"
    /\ f_pc' = "read"
    /\ f_read' = "none"
    /\ UNCHANGED <<detectVars, actionVars, m_features, m_features_mutex>>

----------------------------------------------------------------------------
(* detectTask *)

DetectFetchFailNoContinue ==
    /\ d_pc = "fetch"
    /\ \E r \in {"null", "fail"} : d_res' = r
    /\ d_i' = 0
    /\ d_pc' = "append"
    /\ UNCHANGED <<afe_chunksize, m_audio_buffer, m_audio_buffer_ptr, appended,
                   window_N, feedVars, actionVars, m_features, m_features_mutex>>

\* fetch() returned nullptr or ESP_FAIL: continue
DetectFetchFail ==
    /\ d_pc = "fetch"
    /\ \E r \in {"null", "fail"} : d_res' = r
    /\ UNCHANGED <<afe_chunksize, m_audio_buffer, m_audio_buffer_ptr, d_pc, d_i,
                   appended, window_N, feedVars, actionVars, m_features,
                   m_features_mutex>>

DetectFetchOkLocked ==
    /\ d_pc = "fetch"
    /\ appended + afe_chunksize <= MaxSamples
    /\ m_features_mutex = "free"
    /\ m_features_mutex' = "detect"
    /\ d_res' = "ok"
    /\ d_i' = 0
    /\ d_pc' = "append"
    /\ UNCHANGED <<afe_chunksize, m_audio_buffer, m_audio_buffer_ptr, appended,
                   window_N, feedVars, actionVars, m_features>>

\* fetch() returned a frame of afe_chunksize samples
DetectFetchOk ==
    /\ d_pc = "fetch"
    /\ appended + afe_chunksize <= MaxSamples
    /\ d_res' = "ok"
    /\ d_i' = 0
    /\ d_pc' = "append"
    /\ UNCHANGED <<afe_chunksize, m_audio_buffer, m_audio_buffer_ptr, appended,
                   window_N, feedVars, actionVars, m_features, m_features_mutex>>

\* a % b on ints, b > 0: the remainder has the sign of a
CRem(a, b) == IF a >= 0 THEN a % b ELSE -((-a) % b)

WriteIndexNoWrap(ptr) == ptr

\* m_audio_buffer_ptr %= AUDIO_BUFFER_SIZE: the slot the next sample is written to
WriteIndex(ptr) == CRem(ptr, AUDIO_BUFFER_SIZE)

\* one turn of the append loop; the last one leaves the loop
DetectAppend ==
    /\ d_pc = "append"
    /\ d_i < afe_chunksize
    /\ m_audio_buffer' =
          [m_audio_buffer EXCEPT ![WriteIndex(m_audio_buffer_ptr)] = appended + 1]
    /\ m_audio_buffer_ptr' = WriteIndex(m_audio_buffer_ptr) + 1
    /\ appended' = appended + 1
    /\ IF d_i + 1 < afe_chunksize
       THEN d_i' = d_i + 1 /\ d_pc' = "append"
       ELSE d_i' = 0 /\ d_pc' = "lock"
    /\ UNCHANGED <<afe_chunksize, d_res, window_N, feedVars, actionVars, m_features,
                   m_features_mutex>>

DetectLockNoMutex ==
    /\ d_pc = "lock"
    /\ d_i' = 0
    /\ d_pc' = "rebuild"
    /\ UNCHANGED <<afe_chunksize, m_audio_buffer, m_audio_buffer_ptr, d_res, appended,
                   window_N, feedVars, actionVars, m_features, m_features_mutex>>

\* std::lock_guard guard(m_features_mutex)
DetectLock ==
    /\ d_pc = "lock"
    /\ m_features_mutex = "free"
    /\ m_features_mutex' = "detect"
    /\ d_i' = 0
    /\ d_pc' = "rebuild"
    /\ UNCHANGED <<afe_chunksize, m_audio_buffer, m_audio_buffer_ptr, d_res, appended,
                   window_N, feedVars, actionVars, m_features>>

WindowIndexFromZero(ptr, i) == i

WindowIndexNoWrap(ptr, i) == ptr + i

WindowIndexNewestFirst(ptr, i) == CRem(ptr + AUDIO_BUFFER_SIZE - 1 - i, AUDIO_BUFFER_SIZE)

\* (m_audio_buffer_ptr + i) % AUDIO_BUFFER_SIZE: the ring slot copied to window slot i
WindowIndex(ptr, i) == CRem(ptr + i, AUDIO_BUFFER_SIZE)

\* one turn of the rebuild loop; the last one leaves the loop
DetectRebuild ==
    /\ d_pc = "rebuild"
    /\ d_i < AUDIO_BUFFER_SIZE
    /\ m_features' =
          [m_features EXCEPT ![d_i] = m_audio_buffer[WindowIndex(m_audio_buffer_ptr, d_i)]]
    /\ IF d_i + 1 < AUDIO_BUFFER_SIZE
       THEN d_i' = d_i + 1 /\ d_pc' = "rebuild" /\ UNCHANGED window_N
       ELSE d_i' = 0 /\ d_pc' = "unlock" /\ window_N' = appended
    /\ UNCHANGED <<afe_chunksize, m_audio_buffer, m_audio_buffer_ptr, d_res, appended,
                   feedVars, actionVars, m_features_mutex>>

DetectUnlockKeeps ==
    /\ d_pc = "unlock"
    /\ d_pc' = "fetch"
    /\ UNCHANGED <<afe_chunksize, m_audio_buffer, m_audio_buffer_ptr, d_res, d_i,
                   appended, window_N, feedVars, actionVars, m_features,
                   m_features_mutex>>

\* the guard goes out of scope
DetectUnlock ==
    /\ d_pc = "unlock"
    /\ m_features_mutex' = "free"
    /\ d_pc' = "fetch"
    /\ UNCHANGED <<afe_chunksize, m_audio_buffer, m_audio_buffer_ptr, d_res, d_i,
                   appended, window_N, feedVars, actionVars, m_features>>

----------------------------------------------------------------------------
(* actionTask *)

ActionLockNoMutex ==
    /\ a_pc = "lock"
    /\ Len(events) < MaxEvents
    /\ result_idx' = NOISE_IDX
    /\ pre_crying' = m_crying
    /\ cycle_events' = <<>>
    /\ a_snapshot' = m_features
    /\ a_pulls' = 0
    /\ a_pc' = "infer"
    /\ UNCHANGED <<ei_status, result, m_crying, events, a_torn, prev_idx, prev_status, crying_changes,
                   detectVars, feedVars, m_features, m_features_mutex>>

\* int result_idx{NOISE_IDX}; std::lock_guard guard(m_features_mutex); and
\* run_classifier(&features_signal, &result) is entered
ActionLock ==
    /\ a_pc = "lock"
    /\ Len(events) < MaxEvents
    /\ m_features_mutex = "free"
    /\ m_features_mutex' = "action"
    /\ result_idx' = NOISE_IDX
    /\ pre_crying' = m_crying
    /\ cycle_events' = <<>>
    /\ a_snapshot' = m_features
    /\ a_pulls' = 0
    /\ a_pc' = "infer"
    /\ UNCHANGED <<ei_status, result, m_crying, events, a_torn, prev_idx, prev_status, crying_changes,
                   detectVars, feedVars, m_features>>

\* memcpy(out_ptr, m_features + offset, length * sizeof(float))
Slice(w, offset, length) == [k \in 0 .. length - 1 |-> w[offset + k]]

\* the classifier calls get_data_fn(offset, length, out_ptr)
ActionPull ==
    /\ a_pc = "infer"
    /\ a_pulls < MaxPulls
    /\ \E offset \in Slots : \E length \in 1 .. AUDIO_BUFFER_SIZE - offset :
          a_torn' = (a_torn \/ Slice(m_features, offset, length) # Slice(a_snapshot, offset, length))
    /\ a_pulls' = a_pulls + 1
    /\ UNCHANGED <<a_pc, ei_status, result, result_idx, m_crying, events, a_snapshot,
                   pre_crying, cycle_events, prev_idx, prev_status, crying_changes, detectVars,
                   feedVars, m_features, m_features_mutex>>

BetterOrEqual(scores, i, idx) == scores[i] >= scores[idx]

\* result.classification[i].value > result.classification[result_idx].value
Better(scores, i, idx) == scores[i] > scores[idx]

\* for (uint16_t i = 0; i < EI_CLASSIFIER_LABEL_COUNT; ++i) if (...) result_idx = i;
RECURSIVE Scan(_, _, _)
Scan(scores, i, idx) ==
    IF i < EI_CLASSIFIER_LABEL_COUNT
    THEN Scan(scores, i + 1, IF Better(scores, i, idx) THEN i ELSE idx)
    ELSE idx

ReduceFromCrying(status, scores, idx) ==
    IF status = "OK" THEN Scan(scores, 0, CRYING_IDX) ELSE idx

ReduceAnyStatus(status, scores, idx) == Scan(scores, 0, idx)

ReduceAfterStart(status, scores, idx) ==
    IF status = "OK" THEN Scan(scores, idx + 1, idx) ELSE idx

\* if (run_classifier(...) == EI_IMPULSE_OK) { the scan }: the label after the call,
\* idx being result_idx before it
Reduce(status, scores, idx) ==
    IF status = "OK" THEN Scan(scores, 0, idx) ELSE idx

\* run_classifier returns: EI_IMPULSE_OK with the scores of this window, or an error
\* with whatever it left in result; then the scan
ActionReturnFrom(vectors) ==
    /\ a_pc = "infer"
    /\ \E st \in {"OK", "FAIL"} : \E scores \in vectors :
          /\ ei_status' = st
          /\ result' = scores
          /\ result_idx' = Reduce(st, scores, result_idx)
    /\ a_pc' = "unlock"
    /\ UNCHANGED <<m_crying, events, a_snapshot, a_pulls, a_torn, pre_crying,
                   cycle_events, prev_idx, prev_status, crying_changes, detectVars, feedVars,
                   m_features, m_features_mutex>>

ActionReturn == ActionReturnFrom(ScoreVectors)

\* the same, the scores drawn from 0 .. MaxScore
ActionReturnWide == ActionReturnFrom(WideScoreVectors)

\* the same, the scores drawn from DecidedScoreVectors
ActionReturnDecided == ActionReturnFrom(DecidedScoreVectors)

ActionUnlockLate ==
    /\ a_pc = "unlock"
    /\ a_pc' = "switch"
    /\ UNCHANGED <<ei_status, result, result_idx, m_crying, events, a_snapshot, a_pulls,
                   a_torn, pre_crying, cycle_events, prev_idx, prev_status, crying_changes,
                   detectVars, feedVars, m_features, m_features_mutex>>

\* the guard goes out of scope
ActionUnlock ==
    /\ a_pc = "unlock"
    /\ m_features_mutex' = "free"
    /\ a_pc' = "switch"
    /\ UNCHANGED <<ei_status, result, result_idx, m_crying, events, a_snapshot, a_pulls,
                   a_torn, pre_crying, cycle_events, prev_idx, prev_status, crying_changes,
                   detectVars, feedVars, m_features>>

EmissionLevel(idx, crying) ==
    IF idx = CRYING_IDX THEN <<TRUE>>
    ELSE IF idx = NOISE_IDX THEN <<FALSE>>
    ELSE <<>>

EmissionNoRise(idx, crying) ==
    IF idx = NOISE_IDX /\ crying THEN <<FALSE>> ELSE <<>>

EmissionOtherClears(idx, crying) ==
    IF idx = CRYING_IDX /\ ~crying THEN <<TRUE>>
    ELSE IF idx # CRYING_IDX /\ crying THEN <<FALSE>>
    ELSE <<>>

\* switch (result_idx): the arguments m_crying_fn is called with
Emission(idx, crying) ==
    IF idx = CRYING_IDX /\ ~crying THEN <<TRUE>>
    ELSE IF idx = NOISE_IDX /\ crying THEN <<FALSE>>
    ELSE <<>>

NextCryingNoFall(idx, crying) ==
    IF idx = CRYING_IDX /\ ~crying THEN TRUE ELSE crying

\* switch (result_idx): m_crying after it
NextCrying(idx, crying) ==
    IF idx = CRYING_IDX /\ ~crying THEN TRUE
    ELSE IF idx = NOISE_IDX /\ crying THEN FALSE
    ELSE crying

\* the switch, with the call of m_crying_fn
ActionSwitch ==
    /\ a_pc = "switch"
    /\ events' = events \o Emission(result_idx, m_crying)
    /\ cycle_events' = cycle_events \o Emission(result_idx, m_crying)
    /\ m_crying' = NextCrying(result_idx, m_crying)
    /\ crying_changes' = crying_changes + (IF NextCrying(result_idx, m_crying) # m_crying THEN 1 ELSE 0)
    /\ a_pc' = "delay"
    /\ UNCHANGED <<ei_status, result, result_idx, a_snapshot, a_pulls, a_torn, pre_crying,
                   prev_idx, prev_status, detectVars, feedVars, m_features,
                   m_features_mutex>>

\* vTaskDelay(pdMS_TO_TICKS(1000)), and the loop goes round
ActionDelay ==
    /\ a_pc = "delay"
    /\ prev_idx' = result_idx
    /\ prev_status' = ei_status
    /\ a_pc' = "lock"
    /\ UNCHANGED <<ei_status, result, result_idx, m_crying, events, a_snapshot, a_pulls,
                   a_torn, pre_crying, cycle_events, crying_changes, detectVars, feedVars,
                   m_features, m_features_mutex>>

----------------------------------------------------------------------------

Next ==
    \/ FeedRead
    \/ FeedFeed
    \/ DetectFetchFail
    \/ DetectFetchOk
    \/ DetectAppend
    \/ DetectLock
    \/ DetectRebuild
    \/ DetectUnlock
    \/ ActionLock
    \/ ActionPull
    \/ ActionReturn
    \/ ActionUnlock
    \/ ActionSwitch
    \/ ActionDelay

Spec == Init /\ [][Next]_vars

\* actionTask on its own, over the wider scores: detectTask and feedTask do not run
NextLabel ==
    \/ ActionLock
    \/ ActionPull
    \/ ActionReturnWide
    \/ ActionUnlock
    \/ ActionSwitch
    \/ ActionDelay

SpecLabel == Init /\ [][NextLabel]_vars

\* the three tasks under fair scheduling, the classifier returning one of two
\* decided score vectors or failing
NextFair ==
    \/ FeedRead
    \/ FeedFeed
    \/ DetectFetchFail
    \/ DetectFetchOk
    \/ DetectAppend
    \/ DetectLock
    \/ DetectRebuild
    \/ DetectUnlock
    \/ ActionLock
    \/ ActionPull
    \/ ActionReturnDecided
    \/ ActionUnlock
    \/ ActionSwitch
    \/ ActionDelay

\* Every task that can run does run (each is a FreeRTOS task of priority 5, feedTask
\* alone on core 0, the other two time-sliced on core 1), and run_classifier
\* returns.  A task blocked on m_features_mutex is woken when it is released and
\* gets it: actionTask sleeps 1000 ms after each release and detectTask blocks in
\* fetch() after each release, so the mutex stays free long enough for the waiter.
\* fetch() and esp_get_feed_data() block on the hardware: nothing is assumed of
\* when a frame arrives.
Fairness ==
    /\ WF_vars(FeedFeed)
    /\ WF_vars(DetectAppend)
    /\ SF_vars(DetectLock)
    /\ WF_vars(DetectRebuild)
    /\ WF_vars(DetectUnlock)
    /\ SF_vars(ActionLock)
    /\ WF_vars(ActionReturnDecided)
    /\ WF_vars(ActionUnlock)
    /\ WF_vars(ActionSwitch)
    /\ WF_vars(ActionDelay)

FairSpec == Init /\ [][NextFair]_vars /\ Fairness

TypeOK ==
    /\ afe_chunksize \in 1 .. MaxChunk
    /\ m_features_mutex \in {"free", "detect", "action"}
    /\ d_pc \in {"fetch", "append", "lock", "rebuild", "unlock"}
    /\ a_pc \in {"lock", "infer", "unlock", "switch", "delay"}
    /\ result \in WideScoreVectors
    /\ result_idx \in Labels
    /\ m_crying \in BOOLEAN
    /\ Len(events) <= MaxEvents

----------------------------------------------------------------------------
(* Properties *)

\* actionTask has run the classifier and the scan of this cycle
Reduced == a_pc \in {"unlock", "switch", "delay"}
\* actionTask has gone through the switch of this cycle
CycleDone == a_pc = "delay"
\* the highest score
MaxOf(scores) == CHOOSE m \in {scores[l] : l \in Labels} : \A l \in Labels : scores[l] <= m
\* the labels that have it
TopLabels(scores) == {l \in Labels : scores[l] = MaxOf(scores)}
\* the lowest of a set of labels
Lowest(S) == CHOOSE l \in S : \A k \in S : l <= k

\* C1: once at least AUDIO_BUFFER_SIZE samples have been appended, after the rebuild
\* that follows a frame (and until the next rebuild starts) the window has
\* AUDIO_BUFFER_SIZE slots and slot i holds sample number N - AUDIO_BUFFER_SIZE + i
\* (counted from 0) of the N appended: the last AUDIO_BUFFER_SIZE, oldest first.
C1_WindowIsLastSamples ==
    (window_N >= AUDIO_BUFFER_SIZE /\ d_pc # "rebuild") =>
        /\ DOMAIN m_features = Slots
        /\ \A i \in Slots : m_features[i] = (window_N - AUDIO_BUFFER_SIZE + i) + 1

\* a rebuild after the ring has wrapped, the cursor in the middle of the ring
C1_Witness ==
    /\ d_pc = "unlock"
    /\ window_N > AUDIO_BUFFER_SIZE
    /\ WriteIndex(m_audio_buffer_ptr) # 0
    /\ afe_chunksize > 1

\* C2: a cycle that begins quiet and reduces to CRYING_IDX calls m_crying_fn exactly
\* once, with true, and ends active; a cycle that begins active and reduces to
\* NOISE_IDX calls it exactly once, with false, and ends quiet.
C2_EdgesEmitOnce ==
    CycleDone =>
        /\ (~pre_crying /\ result_idx = CRYING_IDX) => (cycle_events = <<TRUE>> /\ m_crying)
        /\ (pre_crying /\ result_idx = NOISE_IDX) => (cycle_events = <<FALSE>> /\ ~m_crying)

\* a falling edge: the cycle began active and reduced to NOISE_IDX
C2_Witness ==
    /\ CycleDone
    /\ pre_crying
    /\ result_idx = NOISE_IDX
    /\ events = <<TRUE, FALSE>>

\* C3: a cycle that reduces to a label other than CRYING_IDX and NOISE_IDX calls
\* m_crying_fn not at all and leaves m_crying as it was, quiet or active.
C3_OtherLabelsDoNothing ==
    (CycleDone /\ result_idx \notin {CRYING_IDX, NOISE_IDX}) =>
        (cycle_events = <<>> /\ m_crying = pre_crying)

\* a third label seen while active
C3_Witness ==
    /\ CycleDone
    /\ result_idx \notin {CRYING_IDX, NOISE_IDX}
    /\ pre_crying

\* C4: a cycle whose label matches the state it began in (CRYING_IDX while active,
\* NOISE_IDX while quiet) calls nothing and leaves the state; and a cycle that
\* reduces to the label of the cycle before it calls nothing, so repeating a
\* classification emits on the first cycle at most.
C4_Idempotent ==
    CycleDone =>
        /\ ((pre_crying /\ result_idx = CRYING_IDX) \/ (~pre_crying /\ result_idx = NOISE_IDX))
              => (cycle_events = <<>> /\ m_crying = pre_crying)
        /\ (prev_status # "none" /\ prev_status = ei_status /\ prev_idx = result_idx)
              => cycle_events = <<>>

\* CRYING_IDX a second time running
C4_Witness ==
    /\ CycleDone
    /\ prev_status = "OK" /\ ei_status = "OK"
    /\ prev_idx = CRYING_IDX /\ result_idx = CRYING_IDX
    /\ pre_crying

\* C5: before the first cycle the state is quiet and nothing has been emitted; as
\* long as nothing has been emitted the state is quiet; the first call of
\* m_crying_fn is made by a cycle that reduced to CRYING_IDX and passes true.
C5_FirstEventIsTrue ==
    /\ (prev_status = "none" /\ a_pc = "lock") => (events = <<>> /\ ~m_crying)
    /\ events = <<>> => ~m_crying
    /\ events # <<>> => events[1] = TRUE
    /\ (CycleDone /\ Len(events) = 1 /\ cycle_events # <<>>) => result_idx = CRYING_IDX

\* NOISE_IDX cycles and a failed inference came first, then the first event
C5_Witness ==
    /\ CycleDone
    /\ prev_status = "FAIL"
    /\ events = <<TRUE>>
    /\ cycle_events = <<TRUE>>

C7_CallbackOutsideLock ==
    /\ [](Len(cycle_events) <= 1)
    /\ [][events' # events =>
            /\ a_pc = "switch" /\ a_pc' = "delay"
            /\ m_features_mutex # "action"
            /\ Len(events') = Len(events) + 1
            /\ d_pc' = d_pc /\ f_pc' = f_pc]_vars

\* the call was made while detectTask held the mutex
C7_Witness ==
    /\ CycleDone
    /\ cycle_events = <<TRUE>>
    /\ m_features_mutex = "detect"

\* C8: a failed inference reduces to NOISE_IDX whatever the scores in result; the
\* cycle emits false once if it began active and nothing if it began quiet, and
\* ends quiet; a failed inference that follows a failed one emits nothing.
C8_FailureIsNoise ==
    /\ (Reduced /\ ei_status = "FAIL") => result_idx = NOISE_IDX
    /\ (CycleDone /\ ei_status = "FAIL") =>
          /\ ~m_crying
          /\ cycle_events = (IF pre_crying THEN <<FALSE>> ELSE <<>>)
          /\ prev_status = "FAIL" => cycle_events = <<>>

\* active, then two failures with scores in result that favour CRYING_IDX
C8_Witness ==
    /\ CycleDone
    /\ ei_status = "FAIL" /\ prev_status = "FAIL"
    /\ events = <<TRUE, FALSE>>
    /\ result[CRYING_IDX] > result[NOISE_IDX]

\* C9: after a successful inference in which CRYING_IDX and NOISE_IDX share the
\* highest score, the label is NOISE_IDX, and the cycle does not emit true.
C9_TieIsNoise ==
    (Reduced /\ ei_status = "OK" /\ {CRYING_IDX, NOISE_IDX} \subseteq TopLabels(result)) =>
        /\ result_idx = NOISE_IDX
        /\ CycleDone => cycle_events # <<TRUE>>

\* a tie at a score above a third label's, in a cycle that began quiet
C9_Witness ==
    /\ CycleDone
    /\ ei_status = "OK"
    /\ ~pre_crying
    /\ result[CRYING_IDX] = result[NOISE_IDX]
    /\ \A l \in Labels \ {CRYING_IDX, NOISE_IDX} : result[l] < result[NOISE_IDX]

\* C10 as stated: after a successful inference the label is the lowest index among
\* the labels with the highest score.
C10_LowestIndexWins ==
    (Reduced /\ ei_status = "OK") => result_idx = Lowest(TopLabels(result))

\* C10, amended: after a successful inference the label is NOISE_IDX if NOISE_IDX
\* has the highest score, and otherwise the lowest index among the labels with
\* the highest score.
C10_NoiseElseLowestIndex ==
    (Reduced /\ ei_status = "OK") =>
        result_idx = (IF NOISE_IDX \in TopLabels(result)
                      THEN NOISE_IDX
                      ELSE Lowest(TopLabels(result)))

\* CRYING_IDX and a later label share the highest score, above NOISE_IDX's
C10_Witness ==
    /\ Reduced
    /\ ei_status = "OK"
    /\ result[CRYING_IDX] > result[NOISE_IDX]
    /\ Cardinality(TopLabels(result)) > 1
    /\ result_idx = CRYING_IDX

\* C11: an iteration of detectTask whose fetch returns nullptr or ESP_FAIL appends
\* nothing, leaves the cursor, the ring and the window as they were, does not
\* take m_features_mutex, and ends back at the fetch.
C11_FailedFetchChangesNothing ==
    /\ [](d_res \in {"null", "fail"} => (d_pc = "fetch" /\ m_features_mutex # "detect"))
    /\ [][(d_res' # d_res /\ d_res' \in {"null", "fail"}) =>
            /\ d_pc = "fetch" /\ d_pc' = "fetch"
            /\ UNCHANGED <<appended, m_audio_buffer_ptr, m_audio_buffer, m_features,
                           m_features_mutex, window_N>>]_vars

\* a nullptr fetch after frames have been appended, while actionTask holds the mutex
C11_Witness ==
    /\ d_res = "null"
    /\ d_pc = "fetch"
    /\ appended > AUDIO_BUFFER_SIZE
    /\ m_features_mutex = "action"

\* C12: after a capture read that failed, feedTask does not hand the buffer to the
\* AFE in that iteration (and goes on to the next read).
C12_FailedReadFeedsNothing ==
    [][f_read = "fail" => ~(f_pc = "feed" /\ f_pc' = "read")]_vars

\* C13: whatever the classifier returns, cycle after cycle, m_crying_fn has been
\* called no more often than m_crying has changed.
C13_EventsAtMostChanges ==
    Len(events) <= crying_changes

\* two calls, after a failed inference and then a label that is neither
\* CRYING_IDX nor NOISE_IDX
C13_Witness ==
    /\ CycleDone
    /\ Len(events) = 2
    /\ crying_changes = 2
    /\ prev_status = "FAIL"
    /\ result_idx \notin {CRYING_IDX, NOISE_IDX}

\* what a rebuild leaves in the window when n samples have been appended: the last
\* AUDIO_BUFFER_SIZE samples, oldest first, and before the ring is full the
\* never-written slots n .. AUDIO_BUFFER_SIZE - 1 followed by the n samples
LinearWindow(n) ==
    [i \in Slots |->
        IF n >= AUDIO_BUFFER_SIZE THEN (n - AUDIO_BUFFER_SIZE + i) + 1
        ELSE IF i < AUDIO_BUFFER_SIZE - n THEN UninitBuffer(n + i)
        ELSE (i - (AUDIO_BUFFER_SIZE - n)) + 1]

\* C14: every inference, the first included, runs on the window left by a
\* completed rebuild, the last one completed before actionTask took the mutex, and
\* that window stays as it is while the inference runs.
C14_InferenceOnRebuiltWindow ==
    a_pc = "infer" =>
        /\ window_N >= 0
        /\ a_snapshot = LinearWindow(window_N)
        /\ m_features = a_snapshot

\* C15 as stated: the cursor is in 0 .. AUDIO_BUFFER_SIZE - 1 in every state, and an
\* append writes the sample at the old cursor and leaves the cursor at
\* (old cursor + 1) mod AUDIO_BUFFER_SIZE.
C15_CursorBelowSize ==
    /\ [](m_audio_buffer_ptr \in 0 .. AUDIO_BUFFER_SIZE - 1)
    /\ [][appended' = appended + 1 =>
            /\ m_audio_buffer' = [m_audio_buffer EXCEPT ![m_audio_buffer_ptr] = appended']
            /\ m_audio_buffer_ptr' = (m_audio_buffer_ptr + 1) % AUDIO_BUFFER_SIZE]_vars

\* C15, amended: the cursor is in 0 .. AUDIO_BUFFER_SIZE in every state, and an
\* append writes the sample at (old cursor) mod AUDIO_BUFFER_SIZE and leaves the
\* cursor at that slot plus one, which is the old cursor plus one modulo
\* AUDIO_BUFFER_SIZE.
C15_CursorAtMostSize ==
    /\ [](m_audio_buffer_ptr \in 0 .. AUDIO_BUFFER_SIZE)
    /\ [][appended' = appended + 1 =>
            /\ m_audio_buffer' =
                  [m_audio_buffer EXCEPT ![m_audio_buffer_ptr % AUDIO_BUFFER_SIZE] = appended']
            /\ m_audio_buffer_ptr' = (m_audio_buffer_ptr % AUDIO_BUFFER_SIZE) + 1
            /\ m_audio_buffer_ptr' % AUDIO_BUFFER_SIZE
                  = (m_audio_buffer_ptr + 1) % AUDIO_BUFFER_SIZE]_vars

\* the cursor stored between two iterations is AUDIO_BUFFER_SIZE, after a wrap
C15_Witness ==
    /\ d_pc = "fetch"
    /\ m_audio_buffer_ptr = AUDIO_BUFFER_SIZE
    /\ appended > AUDIO_BUFFER_SIZE

\* C16: detectTask holds m_features_mutex exactly from taking it before the rebuild
\* to the end of the rebuild, not during fetch and append; actionTask holds it
\* exactly around the inference; no step that changes the mutex is a step of
\* feedTask.  So with the mutex held by actionTask detectTask can still fetch and
\* append, and is kept waiting only where it takes the mutex for the rebuild.
C16_LockOnlyAroundRebuildAndInference ==
    /\ [](/\ m_features_mutex = "detect" <=> d_pc \in {"rebuild", "unlock"}
          /\ m_features_mutex = "action" <=> a_pc \in {"infer", "unlock"}
          /\ (d_pc = "fetch" /\ appended + afe_chunksize <= MaxSamples) => ENABLED DetectFetchOk
          /\ d_pc = "append" => ENABLED DetectAppend
          /\ (d_pc = "lock" /\ m_features_mutex = "action") => ~ENABLED DetectLock)
    /\ [][m_features_mutex' # m_features_mutex => (f_pc' = f_pc /\ f_read' = f_read)]_vars

\* detectTask is in the middle of appending a frame while actionTask holds the mutex
C16_Witness ==
    /\ m_features_mutex = "action"
    /\ a_pc = "infer"
    /\ d_pc = "append"
    /\ d_i >= 1
    /\ window_N >= AUDIO_BUFFER_SIZE
    /\ appended > window_N

\* C17: while fewer than AUDIO_BUFFER_SIZE samples have been appended, N of them,
\* after the rebuild that follows a frame window slots 0 .. AUDIO_BUFFER_SIZE-N-1
\* hold what the never-written ring slots N .. AUDIO_BUFFER_SIZE-1 held from the
\* start, and the slots after them hold the N samples in append order.
C17_WindowBeforeFirstFill ==
    (window_N \in 1 .. AUDIO_BUFFER_SIZE - 1 /\ d_pc # "rebuild") =>
        \A i \in Slots :
            m_features[i] =
                IF i < AUDIO_BUFFER_SIZE - window_N
                THEN UninitBuffer(window_N + i)
                ELSE (i - (AUDIO_BUFFER_SIZE - window_N)) + 1

\* a rebuild with one slot of the ring still never written, after a frame of
\* more than one sample
C17_Witness ==
    /\ d_pc = "unlock"
    /\ window_N = AUDIO_BUFFER_SIZE - 1
    /\ afe_chunksize > 1
    /\ m_features[0] = UninitBuffer(AUDIO_BUFFER_SIZE - 1)

\* C19: the arguments of the calls of m_crying_fn are true, false, true, ... in
\* turn, true first; at the end of a cycle m_crying is the last argument passed
\* (false if there has been no call); and m_crying changes only in actionTask's
\* switch.
C19_EventsAlternate ==
    /\ [](\A k \in 1 .. Len(events) : events[k] = (k % 2 = 1))
    /\ [](CycleDone => m_crying = (IF events = <<>> THEN FALSE ELSE events[Len(events)]))
    /\ [][m_crying' # m_crying =>
            /\ a_pc = "switch" /\ a_pc' = "delay"
            /\ d_pc' = d_pc /\ d_res' = d_res /\ f_pc' = f_pc]_vars

\* true, false and true again have been passed
C19_Witness ==
    /\ CycleDone
    /\ events = <<TRUE, FALSE, TRUE>>
    /\ m_crying

\* C20: in every state, for the cursor as it is stored, the ring slot the append
\* writes to and the ring slot the rebuild reads for every window slot lie in
\* 0 .. AUDIO_BUFFER_SIZE - 1, whatever the chunk size.
C20_RingIndexesInRange ==
    /\ m_audio_buffer_ptr >= 0
    /\ WriteIndex(m_audio_buffer_ptr) \in Slots
    /\ \A i \in Slots : WindowIndex(m_audio_buffer_ptr, i) \in Slots
    /\ d_pc = "rebuild" => d_i \in Slots

\* the last read of a rebuild wraps round, after a frame larger than the ring
C20_Witness ==
    /\ d_pc = "rebuild"
    /\ afe_chunksize > AUDIO_BUFFER_SIZE
    /\ d_i = AUDIO_BUFFER_SIZE - 1
    /\ m_audio_buffer_ptr + d_i >= AUDIO_BUFFER_SIZE

\* C18: under fair scheduling, with every inference returning, a frame fetched by
\* detectTask is followed by the end of a rebuild that took in all the samples
\* appended, its own included; and actionTask, a cycle done, starts another
\* inference (as long as the bound on the calls of m_crying_fn lets it).
C18_RebuildAndCycleHappen ==
    /\ d_pc = "append" ~>
          (d_pc = "unlock" /\ window_N = appended /\ m_features = LinearWindow(appended))
    /\ (a_pc \in {"delay", "lock"} /\ Len(events) < MaxEvents) ~> a_pc = "infer"

\* a rebuild has ended with the newest frame in the window while actionTask, a
\* cycle behind it, is about to take the mutex again
C18_Witness ==
    /\ d_pc = "unlock"
    /\ window_N = appended
    /\ window_N > AUDIO_BUFFER_SIZE
    /\ a_pc = "lock"
    /\ prev_status # "none"

\* C21: after a successful inference no label has a higher score than the reduced
\* label: result_idx is an argmax of the scores, although the scan starts with the
\* label NOISE_IDX (index 1) and not with index 0.
C21_LabelIsArgmax ==
    (Reduced /\ ei_status = "OK") =>
        \A l \in Labels : result[result_idx] >= result[l]

\* the only top score is at index 0, before the starting label, and the other
\* scores differ from each other
C21_Witness ==
    /\ Reduced
    /\ ei_status = "OK"
    /\ result_idx = CRYING_IDX
    /\ \A l \in Labels \ {CRYING_IDX} : result[l] < result[CRYING_IDX]
    /\ \E l \in Labels \ {CRYING_IDX, NOISE_IDX} : result[l] > result[NOISE_IDX]

====
